---- MODULE Spec2Model ----
(***************************************************************************)
(* A model of NewsBot (src/main.py): one cycle of run() -- ingestion of    *)
(* the RSS feeds, filtering, source prioritisation, schedule generation    *)
(* and publication with retries -- together with the persisted fingerprint *)
(* and source-statistics files that survive a restart of the process.      *)
(*                                                                         *)
(* Time is counted in seconds since midnight of day 0 (Moscow time).       *)
(* Texts are abstracted to the attributes the code reads from them: the    *)
(* number of finance keywords they contain and the length of their         *)
(* clean_text() form.                                                      *)
(***************************************************************************)
EXTENDS Integers, Sequences, FiniteSets, TLC

VARIABLES
    pc,                     \* position of the process in run() / publish_post()
    now,                    \* the wall clock, seconds
    posted_hashes,          \* self.posted_hashes
    failed_sources,         \* self.failed_sources
    source_priority,        \* self.source_priority (dict: source -> int)
    deleted_posts_tracker,  \* self.deleted_posts_tracker (dict: source -> time)
    hash_file,              \* posted_hashes.txt, a sequence of lines
    stats_file,             \* source_stats.json
    feed_idx,               \* position in RSS_SOURCES \o BACKUP_SOURCES
    all_news,               \* run(): all_news
    seen_urls,              \* run(): seen_urls
    filtered_news,          \* run(): filtered_news
    final_news,             \* run(): prioritized_news, then final_news
    schedule,               \* run(): schedule
    idx,                    \* run(): i of the publication loop (1-based)
    post,                   \* publish_post(): its arguments
    use_text,               \* publish_post(): use_text
    attempt,                \* publish_post(): attempt of the sending loop
    calls,                  \* history: responses of the delivery calls for post
    sleeps,                 \* history: the waits made inside publish_post for post
    outcome,                \* history: how the publish_post call for post ended
    delivered,              \* history: every message the channel received
    recorded,               \* history: every fingerprint save_hash was given, with
                            \*          the cycle (0: before the first start)
    before,                 \* history: the store and the source health when
                            \*          publish_post was called for post
    file_start,             \* history: lines of posted_hashes.txt at process start,
                            \*          -1 when load_hashes could not read them
    cycle,                  \* history: number of process starts so far
    fetch_attempt,          \* fetch_feed(): attempt of the fetching loop
    body,                   \* format_message(): the cleaned text given to
                            \*                   smart_truncate
    truncated_content,      \* format_message(): truncated_content
    env                     \* environment: what the collaborators may still do

vars == <<pc, now, posted_hashes, failed_sources, source_priority,
          deleted_posts_tracker, hash_file, stats_file, feed_idx, all_news,
          seen_urls, filtered_news, final_news, schedule, idx, post, use_text,
          attempt, calls, sleeps, outcome, delivered, recorded, before,
          file_start, cycle, fetch_attempt, body, truncated_content, env>>

----------------------------------------------------------------------------
(* Program constants *)

MAX_POSTS_PER_DAY == 3

MIN_CONTENT_LENGTH == 50

\* load_hashes keeps the last 500 lines of posted_hashes.txt
HASH_LINES_KEPT == 500

\* max_retries of the sending loop of publish_post
SEND_MAX_RETRIES == 3

\* the publication window of generate_post_schedule, hours
START_HOUR == 9

END_HOUR == 21

\* random.uniform(-30, 30): the largest variation, minutes
MAX_VARIATION == 30

\* asyncio.sleep(2) between two feeds
FEED_PAUSE == 2

\* track_deleted_post lowers the priority by 2
DELETE_PENALTY == 2

\* random.uniform(5, 15): the pause between two publications, seconds
MIN_POST_PAUSE == 5

MAX_POST_PAUSE == 15

DAY == 86400

----------------------------------------------------------------------------
(* Bounds of the model *)

\* largest number of entries one feed serves in one fetch
MaxEntriesPerFeed == 3

\* failed collaborator calls (attempts of fetch_feed, delivery calls, file
\* accesses) in one behaviour of whole cycles
MaxFaults == 1

\* non-ok answers of the delivery collaborator to one call of publish_post
MaxSendFaults == 3

\* process starts (cycles) in one behaviour
MaxCycles == 2

\* variations drawn are the multiples of JitterStep and the two extremes
JitterStep == 15

----------------------------------------------------------------------------
(* Feeds.  A feed URL is kept as its netloc and path (urlparse). *)

Feed(netloc, path) == [netloc |-> netloc, path |-> path]

RSS_SOURCES ==
    << Feed("www.finam.ru", "/analytics/rsspoint/"),
       Feed("www.cbr.ru", "/rss/eventrss"),
       Feed("www.vedomosti.ru", "/rss/rubric/finance/banks.xml"),
       Feed("arb.ru", "/rss/news/"),
       Feed("www.kommersant.ru", "/RSS/news.xml"),
       Feed("www.bfm.ru", "/news.rss?rubric=28"),
       Feed("ria.ru", "/export/rss2/archive/index.xml") >>

BACKUP_SOURCES ==
    << Feed("www.kommersant.ru", "/RSS/bank.xml"),
       Feed("www.rbc.ru", "/rss/economics.xml"),
       Feed("www.interfax.ru", "/rss.asp"),
       Feed("www.vestifinance.ru", "/rss/news") >>

AllFeeds == RSS_SOURCES \o BACKUP_SOURCES

FeedSet == {AllFeeds[i] : i \in 1..Len(AllFeeds)}

\* urlparse(source).netloc
Domain(source) == source.netloc

----------------------------------------------------------------------------
(* Texts, titles, URLs and the entries the feeds can serve *)

\* A text is known by the number of FINANCE_KEYWORDS it contains (lowercased)
\* and by len(clean_text(text)).
Text(id, kw, clen) == [id |-> id, kw |-> kw, clen |-> clen]

\* the empty string
NoText == Text("", 0, 0)

Title(id, kw) == [id |-> id, kw |-> kw]

\* A link: the article address and whether it carries a tracking parameter
\* (?utm_source=...).  Two links are the same string iff both parts agree.
Url(base, utm) == [base |-> base, utm |-> utm]

Entry(title, url, content) == [title |-> title, url |-> url, content |-> content]

LongBody(id) == Text(id, 2, 900)

\* What each feed may serve: fetch_feed sees a subsequence of these entries.
FeedEntries(source) ==
    CASE source = Feed("www.finam.ru", "/analytics/rsspoint/") ->
           << Entry(Title("rate", 2), Url("finam.ru/1", FALSE), LongBody("rate")),
              Entry(Title("rate", 2), Url("finam.ru/1", TRUE), LongBody("rate")),
              Entry(Title("bonds", 1), Url("finam.ru/2", FALSE), LongBody("bonds")) >>
      [] source = Feed("www.cbr.ru", "/rss/eventrss") ->
           << Entry(Title("cbr", 1), Url("cbr.ru/1", FALSE), LongBody("cbr")) >>
      [] source = Feed("www.kommersant.ru", "/RSS/news.xml") ->
           << Entry(Title("loans", 1), Url("kommersant.ru/1", FALSE), LongBody("loans")) >>
      [] source = Feed("ria.ru", "/export/rss2/archive/index.xml") ->
           << Entry(Title("sport", 0), Url("ria.ru/1", FALSE), Text("sport", 0, 900)),
              Entry(Title("ruble", 1), Url("ria.ru/2", FALSE), Text("ruble", 0, 49)) >>
      [] source = Feed("www.kommersant.ru", "/RSS/bank.xml") ->
           << Entry(Title("banks", 1), Url("kommersant.ru/2", FALSE), LongBody("banks")) >>
      [] source = Feed("www.rbc.ru", "/rss/economics.xml") ->
           << Entry(Title("rate", 2), Url("finam.ru/1", TRUE), LongBody("rate")),
              Entry(Title("rate", 2), Url("finam.ru/1", FALSE), LongBody("rate")),
              Entry(Title("oil", 1), Url("rbc.ru/1", FALSE), LongBody("oil")) >>
      [] OTHER -> << >>

\* What fetch_full_article_text may return for an article: nothing, a text too
\* short after cleaning, a long text without keywords, a long text with them.
FullTexts == { NoText, Text("stub", 1, 10), Text("page", 0, 900), Text("article", 2, 900) }

\* The order-preserving subsequences of s with at most n elements.
RECURSIVE SubSeqs(_, _)
SubSeqs(s, n) ==
    IF s = << >> \/ n = 0 THEN { << >> }
    ELSE SubSeqs(Tail(s), n) \cup { <<Head(s)>> \o t : t \in SubSeqs(Tail(s), n - 1) }

\* the entry lists a fetch of source may find when the articles behind links
\* exist: all of them (steady), or any at most MaxEntriesPerFeed of them
Served(source, links, steady) ==
    LET entries == SelectSeq(FeedEntries(source), LAMBDA e : e.url \in links)
    IN IF steady THEN { entries } ELSE SubSeqs(entries, MaxEntriesPerFeed)

Range(s) == { s[i] : i \in 1..Len(s) }

----------------------------------------------------------------------------
(* Fingerprint store *)

\* md5(url) + "_" + md5(title): equal exactly for equal url and equal title
Fingerprint(url, title) == << url, title >>

\* is_duplicate as it would be if the store were never consulted
never_duplicate(url, title) == FALSE

is_duplicate(url, title) == Fingerprint(url, title) \in posted_hashes

\* lines[:500]: the oldest lines kept instead of the most recent ones
OldestLines(lines) ==
    IF Len(lines) > HASH_LINES_KEPT THEN SubSeq(lines, 1, HASH_LINES_KEPT) ELSE lines

\* lines[-500:] if len(lines) > 500 else lines
RecentLines(lines) ==
    IF Len(lines) > HASH_LINES_KEPT
    THEN SubSeq(lines, Len(lines) - HASH_LINES_KEPT + 1, Len(lines))
    ELSE lines

\* older fingerprints of posted_hashes.txt, of articles no feed serves any more
OldLine(i) == Fingerprint(Url("archive", FALSE), Title("old", i))

OldLines(n) == [ i \in 1..n |-> OldLine(i) ]

----------------------------------------------------------------------------
(* Source health and selection *)

Get(dict, key, default) == IF key \in DOMAIN dict THEN dict[key] ELSE default

Max(a, b) == IF a >= b THEN a ELSE b

Min(a, b) == IF a <= b THEN a ELSE b

\* max(0.1, 1.0 + priority * 0.1), in tenths
PriorityFactor(priority) == Max(1, 10 + priority)

\* min(2.0, 1.0 + hours_since_deletion / 24), in 1/86400
TimeFactor(tracker, source, t) ==
    IF source \in DOMAIN tracker
    THEN Min(2 * DAY, DAY + (t - tracker[source]))
    ELSE DAY

\* get_source_weight, in units of 1/864000
Weight(priority, tracker, source, t) ==
    PriorityFactor(Get(priority, source, 0)) * TimeFactor(tracker, source, t)

get_source_weight(source) == Weight(source_priority, deleted_posts_tracker, source, now)

\* the keys of a dict built by grouping items by source: first appearances
RECURSIVE SourcesInOrder(_)
SourcesInOrder(items) ==
    IF items = << >> THEN << >>
    ELSE LET rest == SourcesInOrder(SubSeq(items, 1, Len(items) - 1))
             s == items[Len(items)].source
         IN IF s \in Range(rest) THEN rest ELSE Append(rest, s)

ItemsOf(items, source) == SelectSeq(items, LAMBDA it : it.source = source)

\* sorted(keys, key=lambda x: w[x], reverse=True): stable, largest key first
RECURSIVE SortedDesc(_, _)
SortedDesc(keys, w) ==
    IF keys = << >> THEN << >>
    ELSE LET best == CHOOSE i \in 1..Len(keys) :
                        /\ \A j \in 1..Len(keys) : w[keys[j]] <= w[keys[i]]
                        /\ \A j \in 1..(i - 1) : w[keys[j]] < w[keys[i]]
             rest == SubSeq(keys, 1, best - 1) \o SubSeq(keys, best + 1, Len(keys))
         IN <<keys[best]>> \o SortedDesc(rest, w)

\* selected_news without the [:MAX_POSTS_PER_DAY] slice
TakeAll(s, n) == s

Take(s, n) == SubSeq(s, 1, Min(n, Len(s)))

\* prioritize_sources as it would be if a source lighter than a source without
\* any history (weight 1.0) were not admitted
PrioritizeHealthy(news_items, source_weights) ==
    LET healthy == SelectSeq(SourcesInOrder(news_items),
                             LAMBDA source : source_weights[source] >= 10 * DAY)
        sorted_sources == SortedDesc(healthy, source_weights)
        selected_news == [ i \in 1..Len(sorted_sources) |->
                             ItemsOf(news_items, sorted_sources[i])[1] ]
    IN Take(selected_news, MAX_POSTS_PER_DAY)

\* prioritize_sources with the weights of the sources given
PrioritizeBy(news_items, source_weights) ==
    LET sorted_sources == SortedDesc(SourcesInOrder(news_items), source_weights)
        selected_news == [ i \in 1..Len(sorted_sources) |->
                             ItemsOf(news_items, sorted_sources[i])[1] ]
    IN Take(selected_news, MAX_POSTS_PER_DAY)

prioritize_sources(news_items) ==
    PrioritizeBy(news_items,
                 [ s \in Range(SourcesInOrder(news_items)) |-> get_source_weight(s) ])

\* avoid_consecutive_sources: the search for a post of another source to put
\* before the last post of result; <<posts_by_source, result>> afterwards
RECURSIVE InsertOther(_, _, _, _)
InsertOther(others, source, pbs, result) ==
    IF others = << >> THEN << pbs, result >>
    ELSE LET other == Head(others)
         IN IF other # source /\ pbs[other] # << >>
            THEN << [pbs EXCEPT ![other] = Tail(@)],
                    SubSeq(result, 1, Len(result) - 1) \o << Head(pbs[other]) >>
                       \o << result[Len(result)] >> >>
            ELSE InsertOther(Tail(others), source, pbs, result)

\* one pass of "for source in sorted_sources" over the sources left
RECURSIVE ForSources(_, _, _, _)
ForSources(left, sorted_sources, pbs, result) ==
    IF left = << >> THEN << pbs, result >>
    ELSE LET source == Head(left)
         IN IF pbs[source] = << >>
            THEN ForSources(Tail(left), sorted_sources, pbs, result)
            ELSE LET pbs1 == [pbs EXCEPT ![source] = Tail(@)]
                     res1 == Append(result, Head(pbs[source]))
                     n == Len(res1)
                     st == IF n >= 2 /\ res1[n - 1].source = res1[n].source
                           THEN InsertOther(sorted_sources, source, pbs1, res1)
                           ELSE << pbs1, res1 >>
                 IN ForSources(Tail(left), sorted_sources, st[1], st[2])

\* while any(posts_by_source.values())
RECURSIVE WhileAny(_, _, _)
WhileAny(sorted_sources, pbs, result) ==
    IF \A s \in DOMAIN pbs : pbs[s] = << >> THEN result
    ELSE LET st == ForSources(sorted_sources, sorted_sources, pbs, result)
         IN WhileAny(sorted_sources, st[1], st[2])

\* the posts in the opposite order
Reversed(posts) == [ i \in 1..Len(posts) |-> posts[Len(posts) + 1 - i] ]

avoid_consecutive_sources(posts) ==
    IF Len(posts) < 2 THEN posts
    ELSE LET keys == SourcesInOrder(posts)
             posts_by_source == [ s \in Range(keys) |-> ItemsOf(posts, s) ]
             sorted_sources ==
                 SortedDesc(keys, [ s \in Range(keys) |-> Len(posts_by_source[s]) ])
         IN Take(WhileAny(sorted_sources, posts_by_source, << >>), MAX_POSTS_PER_DAY)

\* is_finance_related as it would be if every text counted as on topic
always_related(title, content) == TRUE

\* is_finance_related: any keyword in the lowercased "title content"
is_finance_related(title, content) == title.kw + content.kw >= 1

\* len(clean_text(text))
CleanLen(text) == text.clen

----------------------------------------------------------------------------
(* Process start: NewsBot.__init__ *)

NoPost == [title |-> Title("", 0), url |-> Url("", FALSE), content |-> NoText,
           source |-> Feed("", "")]

NoStats == [priority |-> << >>, deleted |-> << >>]

\* load_hashes: the set of the recent lines, or nothing when reading fails
load_hashes(readable) ==
    IF readable THEN Range(RecentLines(hash_file)) ELSE {}

\* load_source_stats: the two dicts of source_stats.json, or the defaults
load_source_stats(readable) == IF readable THEN stats_file ELSE NoStats

\* the environment after n more failures
UseFaults(n) == [env EXCEPT !.faults = @ - n]

Start ==
    /\ pc = "start"
    /\ \E rh \in BOOLEAN, rs \in BOOLEAN :
         LET n == (IF rh THEN 0 ELSE 1) + (IF rs THEN 0 ELSE 1)
         IN /\ n <= env.faults
            /\ posted_hashes' = load_hashes(rh)
            /\ source_priority' = load_source_stats(rs).priority
            /\ deleted_posts_tracker' = load_source_stats(rs).deleted
            /\ file_start' = IF rh THEN Len(hash_file) ELSE -1
            /\ env' = UseFaults(n)
    /\ failed_sources' = {}
    /\ all_news' = << >>
    /\ seen_urls' = {}
    /\ feed_idx' = 1
    /\ fetch_attempt' = 0
    /\ pc' = "fetch"
    /\ UNCHANGED <<now, hash_file, stats_file, filtered_news, final_news, schedule,
                   idx, post, use_text, attempt, calls, sleeps, outcome, delivered,
                   recorded, before, cycle, body, truncated_content>>

----------------------------------------------------------------------------
(* run(): ingestion *)

\* max_retries of fetch_feed
FETCH_MAX_RETRIES == 3

\* a wait of one second whatever the attempt
NoBackoff(n) == 1

RECURSIVE Pow2(_)
Pow2(n) == IF n = 0 THEN 1 ELSE 2 * Pow2(n - 1)

\* the loops of run() as they would be without the test on len(all_news)
NextFeedAll(i, news, failed) == i + 1

\* The feed the loops of run() reach after position i: a source found in
\* failed_sources is passed over; the backup feeds are entered only when
\* len(all_news) < MAX_POSTS_PER_DAY; Len(AllFeeds) + 1 when the loops are over.
RECURSIVE NextFeed(_, _, _)
NextFeed(i, news, failed) ==
    LET j == i + 1
    IN IF j > Len(AllFeeds) THEN j
       ELSE IF j = Len(RSS_SOURCES) + 1 /\ Len(news) >= MAX_POSTS_PER_DAY
            THEN Len(AllFeeds) + 1
       ELSE IF AllFeeds[j] \in failed THEN NextFeed(j, news, failed)
       ELSE j

\* the items fetch_feed builds from the parsed entries
FeedItems(source, entries) ==
    LET kept == SelectSeq(entries, LAMBDA e : is_finance_related(e.title, e.content))
    IN [ i \in 1..Len(kept) |->
           [title |-> kept[i].title, url |-> kept[i].url,
            content |-> kept[i].content, source |-> source] ]

\* for item in news: if item["url"] not in seen_urls: append, add
RECURSIVE Collect(_, _, _)
Collect(news, acc, seen) ==
    IF news = << >> THEN << acc, seen >>
    ELSE IF Head(news).url \in seen THEN Collect(Tail(news), acc, seen)
    ELSE Collect(Tail(news), Append(acc, Head(news)), seen \cup {Head(news).url})

\* run() after fetch_feed returned news: collect, pause, go to the next feed
AfterFeed(news, failed) ==
    LET got == Collect(news, all_news, seen_urls)
        j == NextFeed(feed_idx, got[1], failed)
    IN /\ all_news' = got[1]
       /\ seen_urls' = got[2]
       /\ now' = now + FEED_PAUSE
       /\ feed_idx' = j
       /\ fetch_attempt' = 0
       /\ pc' = IF j > Len(AllFeeds) THEN "filter" ELSE "fetch"

FetchUnchanged ==
    UNCHANGED <<posted_hashes, source_priority, deleted_posts_tracker, hash_file,
                stats_file, filtered_news, final_news, schedule, idx, post, use_text,
                attempt, calls, sleeps, outcome, delivered, recorded, before, file_start,
                cycle, body, truncated_content>>

\* an attempt of fetch_feed answered with status 200
FetchOk ==
    /\ pc = "fetch"
    /\ \E entries \in Served(AllFeeds[feed_idx], env.links, env.steady) :
         AfterFeed(FeedItems(AllFeeds[feed_idx], entries), failed_sources)
    /\ UNCHANGED <<failed_sources, env>>
    /\ FetchUnchanged

\* a failed attempt of fetch_feed as it would be if the failure of the last
\* attempt were raised out of run()
FetchAborts(marks) ==
    /\ pc = "fetch"
    /\ env.faults > 0
    /\ AllFeeds[feed_idx] \in env.flaky
    /\ env' = UseFaults(1)
    /\ failed_sources' = IF marks THEN failed_sources \cup {AllFeeds[feed_idx]}
                         ELSE failed_sources
    /\ IF fetch_attempt < FETCH_MAX_RETRIES - 1
       THEN /\ now' = now + Pow2(fetch_attempt)
            /\ fetch_attempt' = fetch_attempt + 1
            /\ pc' = pc
       ELSE /\ pc' = "exit"
            /\ UNCHANGED <<now, fetch_attempt>>
    /\ UNCHANGED <<all_news, seen_urls, feed_idx>>
    /\ FetchUnchanged

\* a failed attempt of fetch_feed; marks says whether the branch adds the
\* feed to failed_sources
FetchFails(marks) ==
    /\ pc = "fetch"
    /\ env.faults > 0
    /\ AllFeeds[feed_idx] \in env.flaky
    /\ env' = UseFaults(1)
    /\ LET failed == IF marks THEN failed_sources \cup {AllFeeds[feed_idx]}
                     ELSE failed_sources
       IN /\ failed_sources' = failed
          /\ IF fetch_attempt < FETCH_MAX_RETRIES - 1
             THEN /\ now' = now + Pow2(fetch_attempt)
                  /\ fetch_attempt' = fetch_attempt + 1
                  /\ UNCHANGED <<all_news, seen_urls, feed_idx, pc>>
             ELSE AfterFeed(<< >>, failed)
    /\ FetchUnchanged

\* response.status != 200
FetchHttpError == FetchFails(TRUE)

\* asyncio.TimeoutError
FetchTimeout == FetchFails(FALSE)

\* any other exception
FetchException == FetchFails(TRUE)

----------------------------------------------------------------------------
(* run(): filtering and selection *)

\* the condition under which run() keeps an item of all_news
PassesFilter(item) ==
    /\ ~ is_duplicate(item.url, item.title)
    /\ is_finance_related(item.title, item.content)
    /\ CleanLen(item.content) >= MIN_CONTENT_LENGTH

SelectUnchanged ==
    UNCHANGED <<now, posted_hashes, failed_sources, source_priority,
                deleted_posts_tracker, hash_file, stats_file, feed_idx, all_news,
                seen_urls, schedule, idx, post, use_text, attempt, calls, sleeps,
                outcome, delivered, recorded, before, file_start, cycle, fetch_attempt,
                body, truncated_content, env>>

Filter ==
    /\ pc = "filter"
    /\ filtered_news' = SelectSeq(all_news, PassesFilter)
    /\ pc' = "prioritize"
    /\ UNCHANGED final_news
    /\ SelectUnchanged

\* prioritized_news = self.prioritize_sources(filtered_news), some news found
Prioritize ==
    /\ pc = "prioritize"
    /\ prioritize_sources(filtered_news) # << >>
    /\ final_news' = prioritize_sources(filtered_news)
    /\ pc' = "avoid"
    /\ UNCHANGED filtered_news
    /\ SelectUnchanged

\* if not prioritized_news: return
NoNews ==
    /\ pc = "prioritize"
    /\ prioritize_sources(filtered_news) = << >>
    /\ final_news' = << >>
    /\ pc' = "exit"
    /\ UNCHANGED filtered_news
    /\ SelectUnchanged

\* final_news = self.avoid_consecutive_sources(prioritized_news)
Avoid ==
    /\ pc = "avoid"
    /\ final_news' = avoid_consecutive_sources(final_news)
    /\ pc' = "schedule"
    /\ UNCHANGED filtered_news
    /\ SelectUnchanged

----------------------------------------------------------------------------
(* generate_post_schedule *)

HourOf(t) == (t % DAY) \div 3600

Midnight(t) == t - (t % DAY)

\* t.replace(hour=h, minute=m, second=0, microsecond=0)
Replace(t, h, m) == Midnight(t) + h * 3600 + m * 60

\* the variations random.uniform(-30, 30) is drawn from, in whole minutes below
JitterDraws ==
    { v \in (0 - MAX_VARIATION)..MAX_VARIATION : v % JitterStep = 0 }
       \cup { 0 - MAX_VARIATION, MAX_VARIATION }

\* the first post time without the step to the next day
SameDayFirstPostTime(t) ==
    IF HourOf(t) < START_HOUR \/ HourOf(t) >= END_HOUR THEN Replace(t, START_HOUR, 0)
    ELSE t

FirstPostTime(t) ==
    IF HourOf(t) < START_HOUR THEN Replace(t, START_HOUR, 0)
    ELSE IF HourOf(t) >= END_HOUR THEN Replace(t, START_HOUR, 0) + DAY
    ELSE t

\* hour passed to replace() for slot i (0-based) with the variation drawn
SlotHour(i, variation) ==
    LET available_minutes == (END_HOUR - START_HOUR) * 60
        total_minutes == (available_minutes * (i + 1)) \div (MAX_POSTS_PER_DAY + 1)
                            + variation
    IN START_HOUR + (total_minutes \div 60)

SlotMinute(i, variation) ==
    LET available_minutes == (END_HOUR - START_HOUR) * 60
        total_minutes == (available_minutes * (i + 1)) \div (MAX_POSTS_PER_DAY + 1)
                            + variation
    IN total_minutes % 60

\* the post time of slot i before it is checked against the window
RawPostTime(t, i, variation) ==
    Replace(FirstPostTime(t), SlotHour(i, variation), SlotMinute(i, variation))

\* the post time of slot i; low and high are the minutes random.randint draws
\* if the time has to be brought back into the window
PostTime(t, i, variation, low, high) ==
    LET post_time == RawPostTime(t, i, variation)
    IN IF HourOf(post_time) < START_HOUR THEN Replace(post_time, START_HOUR, low)
       ELSE IF HourOf(post_time) >= END_HOUR THEN Replace(post_time, END_HOUR - 1, high)
       ELSE post_time

\* random.randint(0, 30) and random.randint(30, 59), drawn only when needed
LowDraws(t, i, variation) ==
    IF HourOf(RawPostTime(t, i, variation)) < START_HOUR THEN 0..30 ELSE {0}

HighDraws(t, i, variation) ==
    IF HourOf(RawPostTime(t, i, variation)) >= END_HOUR THEN 30..59 ELSE {59}

\* sorted(times)
RECURSIVE SortAsc(_)
SortAsc(times) ==
    IF times = << >> THEN << >>
    ELSE LET least == CHOOSE i \in 1..Len(times) :
                         /\ \A j \in 1..Len(times) : times[i] <= times[j]
                         /\ \A j \in 1..(i - 1) : times[i] < times[j]
         IN <<times[least]>>
              \o SortAsc(SubSeq(times, 1, least - 1) \o SubSeq(times, least + 1, Len(times)))

\* generate_post_schedule at time t with the numbers drawn; replace() raises
\* for an hour outside 0..23, and the fallback schedule is returned then
generate_post_schedule(t, variations, lows, highs) ==
    IF \E i \in 0..(MAX_POSTS_PER_DAY - 1) : SlotHour(i, variations[i + 1]) \notin 0..23
    THEN [ i \in 1..MAX_POSTS_PER_DAY |-> t + 30 * 60 * (i - 1) ]
    ELSE SortAsc([ i \in 1..MAX_POSTS_PER_DAY |->
                     PostTime(t, i - 1, variations[i], lows[i], highs[i]) ])

Slots == 1..MAX_POSTS_PER_DAY

\* the sequences of length n whose i-th element is drawn from sets[i]
RECURSIVE Product(_, _)
Product(n, sets) ==
    IF n = 0 THEN { << >> }
    ELSE { Append(s, x) : s \in Product(n - 1, sets), x \in sets[n] }

GenerateSchedule ==
    /\ pc = "schedule"
    /\ \E variations \in [Slots -> env.jitter] :
         \E lows \in Product(MAX_POSTS_PER_DAY,
                             [i \in Slots |-> LowDraws(now, i - 1, variations[i])]),
            highs \in Product(MAX_POSTS_PER_DAY,
                              [i \in Slots |-> HighDraws(now, i - 1, variations[i])]) :
            schedule' = generate_post_schedule(now, variations, lows, highs)
    /\ idx' = 1
    /\ pc' = "loop"
    /\ UNCHANGED <<now, posted_hashes, failed_sources, source_priority,
                   deleted_posts_tracker, hash_file, stats_file, feed_idx, all_news,
                   seen_urls, filtered_news, final_news, post, use_text, attempt,
                   calls, sleeps, outcome, delivered, recorded, before, file_start, cycle,
                   fetch_attempt, body, truncated_content, env>>

----------------------------------------------------------------------------
(* run(): the publication loop, and publish_post *)

Response(kind, retry_after) == [kind |-> kind, retry_after |-> retry_after]

\* the number of (item, time) pairs of zip(final_news, schedule)
Pairs == Min(Len(final_news), Len(schedule))

PublishUnchanged ==
    UNCHANGED <<failed_sources, feed_idx, all_news, seen_urls, filtered_news,
                final_news, schedule, before, file_start, cycle, fetch_attempt, body,
                truncated_content>>

\* what the history keeps of the state in which publish_post is called
Snapshot(hashes, priority, deleted, lines) ==
    [hashes |-> hashes, priority |-> priority, deleted |-> deleted, lines |-> lines]

\* the loop as it would be without the wait for pub_time
StartPostAtOnce ==
    /\ pc = "loop"
    /\ idx <= Pairs
    /\ now' = now
    /\ post' = final_news[idx]
    /\ use_text' = NoText
    /\ attempt' = 0
    /\ calls' = << >>
    /\ sleeps' = << >>
    /\ outcome' = "none"
    /\ before' = Snapshot(posted_hashes, source_priority, deleted_posts_tracker,
                          Len(hash_file))
    /\ pc' = "validate"
    /\ UNCHANGED <<posted_hashes, source_priority, deleted_posts_tracker, hash_file,
                   stats_file, idx, delivered, recorded, env, failed_sources,
                   feed_idx, all_news, seen_urls, filtered_news, final_news, schedule,
                   file_start, cycle, fetch_attempt, body, truncated_content>>

\* wait until schedule[idx] if it lies ahead, then call publish_post
StartPost ==
    /\ pc = "loop"
    /\ idx <= Pairs
    /\ now' = Max(now, schedule[idx])
    /\ post' = final_news[idx]
    /\ use_text' = NoText
    /\ attempt' = 0
    /\ calls' = << >>
    /\ sleeps' = << >>
    /\ outcome' = "none"
    /\ before' = Snapshot(posted_hashes, source_priority, deleted_posts_tracker,
                          Len(hash_file))
    /\ pc' = "validate"
    /\ UNCHANGED <<posted_hashes, source_priority, deleted_posts_tracker, hash_file,
                   stats_file, idx, delivered, recorded, env, failed_sources,
                   feed_idx, all_news, seen_urls, filtered_news, final_news, schedule,
                   file_start, cycle, fetch_attempt, body, truncated_content>>

\* the two checks publish_post makes before it fetches the article
Validate ==
    /\ pc = "validate"
    /\ IF is_duplicate(post.url, post.title)
          \/ ~ is_finance_related(post.title, post.content)
       THEN /\ outcome' = "skipped"
            /\ pc' = "returned"
       ELSE /\ outcome' = outcome
            /\ pc' = "fetch_text"
    /\ UNCHANGED <<now, posted_hashes, source_priority, deleted_posts_tracker,
                   hash_file, stats_file, idx, post, use_text, attempt, calls, sleeps,
                   delivered, recorded, env>>
    /\ PublishUnchanged

\* use_text as it would be without the fallback to content
UseFullText(full_text, content) == full_text

\* use_text = full_text if full_text.strip() else content
UseText(full_text, content) == IF full_text # NoText THEN full_text ELSE content

\* fetch_full_article_text returns full_text; the check of the cleaned length
FetchText ==
    /\ pc = "fetch_text"
    /\ \E full_text \in env.full_texts :
         /\ use_text' = UseText(full_text, post.content)
         /\ IF CleanLen(UseText(full_text, post.content)) < MIN_CONTENT_LENGTH
            THEN /\ outcome' = "skipped"
                 /\ pc' = "returned"
            ELSE /\ outcome' = outcome
                 /\ pc' = "send"
    /\ attempt' = 0
    /\ UNCHANGED <<now, posted_hashes, source_priority, deleted_posts_tracker,
                   hash_file, stats_file, idx, post, calls, sleeps, delivered,
                   recorded, env>>
    /\ PublishUnchanged

\* if source:
Truthy(source) == source # Feed("", "")

\* source_stats.json as save_source_stats writes it
StatsOf(priority, deleted) == [priority |-> priority, deleted |-> deleted]

\* self.source_priority[source] = d: the score overwritten instead of adjusted
BumpTo(priority, source, d) ==
    [ s \in DOMAIN priority \cup {source} |-> IF s = source THEN d ELSE priority[s] ]

\* self.source_priority[source] = self.source_priority.get(source, 0) + d
Bump(priority, source, d) ==
    [ s \in DOMAIN priority \cup {source} |->
        IF s = source THEN Get(priority, source, 0) + d ELSE priority[s] ]

Put(dict, key, value) ==
    [ k \in DOMAIN dict \cup {key} |-> IF k = key THEN value ELSE dict[k] ]

\* the success path as it would be if memory were updated only after the
\* file was written
SendOkWriteFirst ==
    /\ pc = "send"
    /\ attempt < SEND_MAX_RETRIES
    /\ calls' = Append(calls, Response("ok", 0))
    /\ delivered' = Append(delivered,
                           [url |-> post.url, title |-> post.title,
                            source |-> post.source, text |-> use_text,
                            cycle |-> cycle, at |-> now])
    /\ recorded' = recorded \cup {[fp |-> Fingerprint(post.url, post.title),
                                    cycle |-> cycle]}
    /\ \E wh \in BOOLEAN, ws \in BOOLEAN :
         LET n == (IF wh THEN 0 ELSE 1) + (IF ws THEN 0 ELSE 1)
             priority == IF Truthy(post.source) /\ ws
                         THEN Bump(source_priority, post.source, 1)
                         ELSE source_priority
         IN /\ n <= env.faults
            /\ Truthy(post.source) \/ ws
            /\ env' = UseFaults(n)
            /\ posted_hashes' = IF wh
                                THEN posted_hashes \cup {Fingerprint(post.url, post.title)}
                                ELSE posted_hashes
            /\ hash_file' = IF wh
                            THEN Append(hash_file, Fingerprint(post.url, post.title))
                            ELSE hash_file
            /\ source_priority' = priority
            /\ stats_file' = IF ws /\ Truthy(post.source)
                             THEN StatsOf(priority, deleted_posts_tracker)
                             ELSE stats_file
    /\ outcome' = "delivered"
    /\ pc' = "returned"
    /\ UNCHANGED <<now, deleted_posts_tracker, idx, post, use_text, attempt, sleeps>>
    /\ PublishUnchanged

\* send_message succeeded: save_hash, reward the source, return True
SendOk ==
    /\ pc = "send"
    /\ attempt < SEND_MAX_RETRIES
    /\ calls' = Append(calls, Response("ok", 0))
    /\ delivered' = Append(delivered,
                           [url |-> post.url, title |-> post.title,
                            source |-> post.source, text |-> use_text,
                            cycle |-> cycle, at |-> now])
    /\ posted_hashes' = posted_hashes \cup {Fingerprint(post.url, post.title)}
    /\ recorded' = recorded \cup {[fp |-> Fingerprint(post.url, post.title),
                                    cycle |-> cycle]}
    /\ \E wh \in BOOLEAN, ws \in BOOLEAN :
         LET n == (IF wh THEN 0 ELSE 1) + (IF ws THEN 0 ELSE 1)
             priority == IF Truthy(post.source)
                         THEN Bump(source_priority, post.source, 1)
                         ELSE source_priority
         IN /\ n <= env.faults
            /\ Truthy(post.source) \/ ws
            /\ env' = UseFaults(n)
            /\ hash_file' = IF wh
                            THEN Append(hash_file, Fingerprint(post.url, post.title))
                            ELSE hash_file
            /\ source_priority' = priority
            /\ stats_file' = IF ws /\ Truthy(post.source)
                             THEN StatsOf(priority, deleted_posts_tracker)
                             ELSE stats_file
    /\ outcome' = "delivered"
    /\ pc' = "returned"
    /\ UNCHANGED <<now, deleted_posts_tracker, idx, post, use_text, attempt, sleeps>>
    /\ PublishUnchanged

\* the sending loop after a failed attempt that waited d seconds
NextAttempt(d) ==
    /\ sleeps' = Append(sleeps, d)
    /\ now' = now + d
    /\ attempt' = attempt + 1
    /\ IF attempt + 1 < SEND_MAX_RETRIES
       THEN /\ outcome' = outcome
            /\ pc' = "send"
       ELSE /\ outcome' = "failed"
            /\ pc' = "returned"

\* error.RetryAfter: wait e.retry_after, go on with the loop
SendRetryAfter ==
    /\ pc = "send"
    /\ attempt < SEND_MAX_RETRIES
    /\ env.faults > 0
    /\ \E d \in env.retry_after :
         /\ calls' = Append(calls, Response("rate_limited", d))
         /\ NextAttempt(d)
    /\ env' = UseFaults(1)
    /\ UNCHANGED <<posted_hashes, source_priority, deleted_posts_tracker, hash_file,
                   stats_file, idx, post, use_text, delivered, recorded>>
    /\ PublishUnchanged

\* error.TimedOut: wait 2 ** attempt, go on with the loop
SendTimedOut ==
    /\ pc = "send"
    /\ attempt < SEND_MAX_RETRIES
    /\ env.faults > 0
    /\ calls' = Append(calls, Response("timeout", 0))
    /\ NextAttempt(Pow2(attempt))
    /\ env' = UseFaults(1)
    /\ UNCHANGED <<posted_hashes, source_priority, deleted_posts_tracker, hash_file,
                   stats_file, idx, post, use_text, delivered, recorded>>
    /\ PublishUnchanged

\* any other exception: on the last attempt track_deleted_post and return
\* False, otherwise wait 2 ** attempt
SendError ==
    /\ pc = "send"
    /\ attempt < SEND_MAX_RETRIES
    /\ env.faults > 0
    /\ calls' = Append(calls, Response("error", 0))
    /\ IF attempt = SEND_MAX_RETRIES - 1
       THEN /\ outcome' = "failed"
            /\ pc' = "returned"
            /\ attempt' = attempt + 1
            /\ UNCHANGED <<sleeps, now>>
            /\ IF Truthy(post.source)
               THEN \E ws \in BOOLEAN :
                      LET priority == Bump(source_priority, post.source,
                                           0 - DELETE_PENALTY)
                          deleted == Put(deleted_posts_tracker, post.source, now)
                      IN /\ ws \/ env.faults > 1
                         /\ deleted_posts_tracker' = deleted
                         /\ source_priority' = priority
                         /\ stats_file' = IF ws THEN StatsOf(priority, deleted)
                                          ELSE stats_file
                         /\ env' = UseFaults(IF ws THEN 1 ELSE 2)
               ELSE /\ env' = UseFaults(1)
                    /\ UNCHANGED <<source_priority, deleted_posts_tracker, stats_file>>
       ELSE /\ NextAttempt(Pow2(attempt))
            /\ env' = UseFaults(1)
            /\ UNCHANGED <<source_priority, deleted_posts_tracker, stats_file>>
    /\ UNCHANGED <<posted_hashes, hash_file, idx, post, use_text, delivered, recorded>>
    /\ PublishUnchanged

\* back in run() after publish_post returned: a pause of random.uniform(5, 15)
\* follows a published post that is not the last of final_news
AfterPost(pause) ==
    IF outcome = "delivered" /\ idx < Len(final_news) THEN now + pause ELSE now

\* the loop as it would be if publish_post were started without being awaited:
\* the next pair is taken while the delivery of this one is still going on
NextPostEarly ==
    /\ pc \in {"send", "returned"}
    /\ idx < Pairs
    /\ \E pause \in env.pauses : now' = AfterPost(pause)
    /\ idx' = idx + 1
    /\ pc' = "loop"
    /\ UNCHANGED <<posted_hashes, source_priority, deleted_posts_tracker, hash_file,
                   stats_file, post, use_text, attempt, calls, sleeps, outcome,
                   delivered, recorded, env>>
    /\ PublishUnchanged

\* the loop as it would be if it took the same pair again
RepeatPost ==
    /\ pc = "returned"
    /\ idx < Pairs
    /\ \E pause \in env.pauses : now' = AfterPost(pause)
    /\ idx' = idx
    /\ pc' = "loop"
    /\ UNCHANGED <<posted_hashes, source_priority, deleted_posts_tracker, hash_file,
                   stats_file, post, use_text, attempt, calls, sleeps, outcome,
                   delivered, recorded, env>>
    /\ PublishUnchanged

\* the next pair of zip(final_news, schedule)
NextPost ==
    /\ pc = "returned"
    /\ idx < Pairs
    /\ \E pause \in env.pauses : now' = AfterPost(pause)
    /\ idx' = idx + 1
    /\ pc' = "loop"
    /\ UNCHANGED <<posted_hashes, source_priority, deleted_posts_tracker, hash_file,
                   stats_file, post, use_text, attempt, calls, sleeps, outcome,
                   delivered, recorded, env>>
    /\ PublishUnchanged

\* the loop is over: failed_sources is cleared in the first hour of the day
Finish ==
    /\ pc = "returned"
    /\ idx >= Pairs
    /\ \E pause \in env.pauses : now' = AfterPost(pause)
    /\ failed_sources' = IF failed_sources # {} /\ HourOf(now') = 0 THEN {}
                         ELSE failed_sources
    /\ pc' = "exit"
    /\ UNCHANGED <<posted_hashes, source_priority, deleted_posts_tracker,
                   hash_file, stats_file, feed_idx, all_news, seen_urls,
                   filtered_news, final_news, schedule, idx, post, use_text, attempt,
                   calls, sleeps, outcome, delivered, recorded, before, file_start, cycle,
                   fetch_attempt, body, truncated_content, env>>

\* the process is started again for the next cycle
Restart ==
    /\ pc = "exit"
    /\ cycle < env.cycles
    /\ cycle' = cycle + 1
    /\ now' = Midnight(now) + DAY + HourOf(env.started) * 3600
    /\ pc' = "start"
    /\ posted_hashes' = {}
    /\ failed_sources' = {}
    /\ source_priority' = << >>
    /\ deleted_posts_tracker' = << >>
    /\ all_news' = << >>
    /\ seen_urls' = {}
    /\ filtered_news' = << >>
    /\ final_news' = << >>
    /\ schedule' = << >>
    /\ idx' = 1
    /\ post' = NoPost
    /\ use_text' = NoText
    /\ attempt' = 0
    /\ calls' = << >>
    /\ sleeps' = << >>
    /\ outcome' = "none"
    /\ feed_idx' = 1
    /\ fetch_attempt' = 0
    /\ UNCHANGED <<hash_file, stats_file, delivered, recorded, before, file_start,
                   body, truncated_content, env>>

----------------------------------------------------------------------------
(* format_message: smart_truncate *)

MAX_CONTENT_LENGTH == 800

\* max_length - 100: a sentence end before this index is not used
TRUNCATE_WINDOW == 100

\* A string is known by its length, by the (0-based) indices of its
\* characters '.', '!' and '?', and by whether its last character is the
\* ellipsis smart_truncate appends.
Str(len, ends) == [len |-> len, ends |-> ends, ellipsis |-> FALSE]

NoString == Str(0, {})

\* s[:k]
Slice(s, k) ==
    [len |-> Min(k, s.len), ends |-> { e \in s.ends : e < k },
     ellipsis |-> s.ellipsis /\ k >= s.len]

\* max(s.rfind('.'), s.rfind('!'), s.rfind('?')): -1 when none is found
LastEnd(s) ==
    IF s.ends = {} THEN -1 ELSE CHOOSE e \in s.ends : \A x \in s.ends : x <= e

\* s + "..." (one character)
WithEllipsis(s) == [len |-> s.len + 1, ends |-> s.ends, ellipsis |-> TRUE]

smart_truncate(text, max_length) ==
    IF text.len <= max_length THEN text
    ELSE LET truncated == Slice(text, max_length + 1)
             last_end == LastEnd(truncated)
         IN IF last_end > max_length - TRUNCATE_WINDOW
            THEN Slice(truncated, last_end + 1)
            ELSE WithEllipsis(Slice(truncated, max_length))

\* truncated_content = self.smart_truncate(full_text, MAX_CONTENT_LENGTH)
Truncate ==
    /\ pc = "truncate"
    /\ truncated_content' = smart_truncate(body, MAX_CONTENT_LENGTH)
    /\ pc' = "truncated"
    /\ UNCHANGED <<now, posted_hashes, failed_sources, source_priority,
                   deleted_posts_tracker, hash_file, stats_file, feed_idx, all_news,
                   seen_urls, filtered_news, final_news, schedule, idx, post, use_text,
                   attempt, calls, sleeps, outcome, delivered, recorded, before,
                   file_start, cycle, fetch_attempt, body, env>>

----------------------------------------------------------------------------
(* Specifications *)

\* day d, h:m o'clock
At(d, h, m) == d * DAY + h * 3600 + m * 60

FINAM == RSS_SOURCES[1]

CBR == RSS_SOURCES[2]

\* every link of the feeds
Links == UNION { { e.url : e \in Range(FeedEntries(f)) } : f \in FeedSet }

\* An environment: how many collaborator calls (attempts of fetch_feed,
\* delivery calls, file accesses) may still fail, which feeds may fail, the
\* articles that exist and whether the feeds serve them steadily, the numbers
\* the random draws come from, the texts an article page may give, and how
\* many cycles are run (one a day, at the hour of the first start).
Env(faults, flaky, links, steady, jitter, pauses, full_texts, cycles) ==
    [faults |-> faults, flaky |-> flaky, links |-> links, steady |-> steady,
     jitter |-> jitter, pauses |-> pauses, full_texts |-> full_texts,
     retry_after |-> {5}, cycles |-> cycles, started |-> 0]

\* the state of a process before NewsBot.__init__, at time t with the two
\* files and the environment given
Fresh(t, hashes, stats, e) ==
    /\ pc = "start"
    /\ now = t
    /\ posted_hashes = {}
    /\ failed_sources = {}
    /\ source_priority = << >>
    /\ deleted_posts_tracker = << >>
    /\ hash_file = hashes
    /\ stats_file = stats
    /\ feed_idx = 1
    /\ all_news = << >>
    /\ seen_urls = {}
    /\ filtered_news = << >>
    /\ final_news = << >>
    /\ schedule = << >>
    /\ idx = 1
    /\ post = NoPost
    /\ use_text = NoText
    /\ attempt = 0
    /\ calls = << >>
    /\ sleeps = << >>
    /\ outcome = "none"
    /\ delivered = << >>
    /\ recorded = { [fp |-> line, cycle |-> 0] : line \in Range(hashes) }
    /\ before = Snapshot({}, << >>, << >>, 0)
    /\ file_start = 0
    /\ cycle = 1
    /\ fetch_attempt = 0
    /\ body = NoString
    /\ truncated_content = NoString
    /\ env = [e EXCEPT !.started = t]

\* posted_hashes.txt as earlier cycles left it: empty, or the fingerprint of
\* the first finam article followed by HASH_LINES_KEPT - 1 later lines
RateLine == Fingerprint(Url("finam.ru/1", FALSE), Title("rate", 2))

HashFiles == { << >>, <<RateLine>> \o OldLines(HASH_LINES_KEPT - 1) }

Init ==
    \E hashes \in HashFiles :
       Fresh(At(10, 8, 0), hashes, NoStats,
             Env(MaxFaults, {CBR}, {Url("finam.ru/1", FALSE), Url("cbr.ru/1", FALSE)},
                 TRUE, {0}, {MIN_POST_PAUSE, MAX_POST_PAUSE},
                 {NoText, Text("stub", 1, 10)}, MaxCycles))

Ingest == FetchOk \/ FetchHttpError \/ FetchTimeout \/ FetchException

Select == Filter \/ Prioritize \/ NoNews \/ Avoid

Publish == Validate \/ FetchText \/ SendOk \/ SendRetryAfter \/ SendTimedOut \/ SendError

Next ==
    \/ Start
    \/ Ingest
    \/ Select
    \/ GenerateSchedule
    \/ StartPost
    \/ Publish
    \/ NextPost
    \/ Finish
    \/ Restart

Spec == Init /\ [][Next]_vars

----------------------------------------------------------------------------
(* Ingestion and selection alone, over every entry list the feeds may serve
   and several states of the source statistics *)

\* a health record left by earlier cycles: the priority, and the seconds since
\* the last failed publication (-1: none)
Health(priority, ago) == [priority |-> priority, ago |-> ago]

HealthRecords == { Health(1, -1), Health(0 - DELETE_PENALTY, 3600),
                   Health(0 - DELETE_PENALTY, 2 * DAY) }

\* source_stats.json at time t with the health records h (source -> record)
StatsFor(t, h) ==
    StatsOf([ s \in DOMAIN h |-> h[s].priority ],
            [ s \in { x \in DOMAIN h : h[x].ago >= 0 } |-> t - h[s].ago ])

KOMMERSANT_BANK == BACKUP_SOURCES[1]

\* the statistics the first start may find: none, the first feed penalised an
\* hour ago, the first feed penalised two days ago, the first feed penalised
\* ten times and the last time just now, and a rewarded backup feed beside a
\* penalised primary one
HealthCases ==
    { << >>,
      (FINAM :> Health(0 - DELETE_PENALTY, 3600)),
      (FINAM :> Health(0 - DELETE_PENALTY, 2 * DAY)),
      (FINAM :> Health(0 - 10 * DELETE_PENALTY, 0)),
      (FINAM :> Health(0 - DELETE_PENALTY, 3600)) @@ (KOMMERSANT_BANK :> Health(1, -1)) }

HealthFiles(t) == { StatsFor(t, h) : h \in HealthCases }

InitSelect ==
    \E hashes \in { << >>, <<RateLine>> }, stats \in HealthFiles(At(10, 8, 0)) :
       Fresh(At(10, 8, 0), hashes, stats,
             Env(MaxFaults, {CBR}, Links, FALSE, {0}, {MIN_POST_PAUSE}, {NoText}, 1))

NextSelect == Start \/ Ingest \/ Select

SpecSelect == InitSelect /\ [][NextSelect]_vars

----------------------------------------------------------------------------
(* generate_post_schedule alone, at every hour of the day *)

\* an item as run() holds it when the schedule is generated
SampleItem == FeedItems(FINAM, FeedEntries(FINAM))[1]

ScheduleTimes == { At(10, h, m) : h \in 0..23, m \in {0, 59} }

InitSchedule ==
    /\ pc = "schedule"
    /\ now \in ScheduleTimes
    /\ posted_hashes = {}
    /\ failed_sources = {}
    /\ source_priority = << >>
    /\ deleted_posts_tracker = << >>
    /\ hash_file = << >>
    /\ stats_file = NoStats
    /\ feed_idx = Len(AllFeeds) + 1
    /\ all_news = << SampleItem >>
    /\ seen_urls = { SampleItem.url }
    /\ filtered_news = << SampleItem >>
    /\ final_news = << SampleItem >>
    /\ schedule = << >>
    /\ idx = 1
    /\ post = NoPost
    /\ use_text = NoText
    /\ attempt = 0
    /\ calls = << >>
    /\ sleeps = << >>
    /\ outcome = "none"
    /\ delivered = << >>
    /\ recorded = {}
    /\ before = Snapshot({}, << >>, << >>, 0)
    /\ file_start = 0
    /\ cycle = 1
    /\ fetch_attempt = 0
    /\ body = NoString
    /\ truncated_content = NoString
    /\ env = [Env(0, {}, Links, TRUE, JitterDraws, {MIN_POST_PAUSE}, {NoText}, 1)
                EXCEPT !.started = now]

SpecSchedule == InitSchedule /\ [][GenerateSchedule]_vars

----------------------------------------------------------------------------
(* publish_post alone, for every kind of argument and every sequence of
   answers of the delivery collaborator *)

PublishArgs ==
    { [title |-> title, url |-> Url("finam.ru/1", FALSE), content |-> content,
       source |-> FINAM] :
        title \in { Title("rate", 2), Title("sport", 0) },
        content \in { LongBody("rate"), Text("sport", 0, 900), Text("ruble", 0, 49) } }

InitPublish ==
    \E args \in PublishArgs, known \in BOOLEAN, h \in {<< >>} \cup { (FINAM :> r) : r \in HealthRecords } :
       LET t == At(10, 12, 0)
           lines == IF known THEN << Fingerprint(args.url, args.title) >> ELSE << >>
           stats == StatsFor(t, h)
       IN /\ pc = "validate"
          /\ now = t
          /\ posted_hashes = Range(lines)
          /\ failed_sources = {}
          /\ source_priority = stats.priority
          /\ deleted_posts_tracker = stats.deleted
          /\ hash_file = lines
          /\ stats_file = stats
          /\ feed_idx = Len(AllFeeds) + 1
          /\ all_news = << args >>
          /\ seen_urls = { args.url }
          /\ filtered_news = << args >>
          /\ final_news = << args >>
          /\ schedule = << t, t, t >>
          /\ idx = 1
          /\ post = args
          /\ use_text = NoText
          /\ attempt = 0
          /\ calls = << >>
          /\ sleeps = << >>
          /\ outcome = "none"
          /\ delivered = << >>
          /\ recorded = { [fp |-> line, cycle |-> 0] : line \in Range(lines) }
          /\ before = Snapshot(Range(lines), stats.priority, stats.deleted, Len(lines))
          /\ file_start = Len(lines)
          /\ cycle = 1
          /\ fetch_attempt = 0
          /\ body = NoString
          /\ truncated_content = NoString
          /\ env = [Env(MaxSendFaults, {}, Links, TRUE, {0}, {MIN_POST_PAUSE}, FullTexts, 1)
                      EXCEPT !.started = t]

SpecPublish == InitPublish /\ [][Publish]_vars

----------------------------------------------------------------------------
(* Whole cycles, one a day, in which feeds serve entries never seen before
   and every delivery succeeds *)

\* cycles in one behaviour of the daily rotation
MaxRotations == 3

VEDOMOSTI == RSS_SOURCES[3]

ARB == RSS_SOURCES[4]

BFM == RSS_SOURCES[6]

\* feeds with a new finance entry in every cycle
Regulars == { FINAM, ARB }

\* feeds with a new finance entry in some cycles
Occasionals == { CBR, VEDOMOSTI }

Numerals == << "1", "2", "3", "4", "5", "6", "7", "8", "9" >>

\* the entry a feed publishes on day n: a title with a single finance keyword,
\* a long description without any
FreshEntry(source, n) ==
    Entry(Title(source.netloc \o " day " \o Numerals[n], 1),
          Url(source.netloc \o "/" \o Numerals[n], FALSE),
          Text(source.netloc \o " day " \o Numerals[n], 0, 900))

\* the entry of a feed outside the topic: no finance keyword at all
OffTopicEntry(source, n) ==
    Entry(Title(source.netloc \o " sport " \o Numerals[n], 0),
          Url(source.netloc \o "/" \o Numerals[n], FALSE),
          Text(source.netloc \o " sport " \o Numerals[n], 0, 900))

\* the entry lists a fetch of source may find on day n
FreshServed(source, n) ==
    IF source \in Regulars THEN { << FreshEntry(source, n) >> }
    ELSE IF source \in Occasionals THEN { << >>, << FreshEntry(source, n) >> }
    ELSE IF source = BFM THEN { << OffTopicEntry(source, n) >> }
    ELSE { << >> }

\* an attempt of fetch_feed answered with status 200 and the entries of the day
FetchFresh ==
    /\ pc = "fetch"
    /\ \E entries \in FreshServed(AllFeeds[feed_idx], cycle) :
         AfterFeed(FeedItems(AllFeeds[feed_idx], entries), failed_sources)
    /\ UNCHANGED <<failed_sources, env>>
    /\ FetchUnchanged

InitRotation ==
    \E stats \in { NoStats, StatsFor(At(10, 8, 0), (ARB :> Health(1, -1))) } :
       Fresh(At(10, 8, 0), << >>, stats,
             Env(0, {}, {}, TRUE, {0}, {MIN_POST_PAUSE}, {NoText}, MaxRotations))

NextRotation ==
    \/ Start
    \/ FetchFresh
    \/ Filter
    \/ Prioritize
    \/ Avoid
    \/ GenerateSchedule
    \/ StartPost
    \/ Validate
    \/ FetchText
    \/ SendOk
    \/ NextPost
    \/ Finish
    \/ Restart

SpecRotation == InitRotation /\ [][NextRotation]_vars

----------------------------------------------------------------------------
(* One cycle in which a feed may fail on every attempt *)

\* failures of collaborator calls in one behaviour of the cycle
MaxFetchFaults == 3

InitFeeds ==
    \E hashes \in { << >>, <<RateLine>> } :
       Fresh(At(10, 8, 0), hashes, NoStats,
             Env(MaxFetchFaults, {CBR},
                 {Url("finam.ru/1", FALSE), Url("cbr.ru/1", FALSE),
                  Url("kommersant.ru/1", FALSE)},
                 TRUE, {0}, {MIN_POST_PAUSE}, {NoText}, 1))

NextFeeds ==
    \/ Start
    \/ Ingest
    \/ Filter
    \/ Prioritize
    \/ Avoid
    \/ GenerateSchedule
    \/ StartPost
    \/ Publish
    \/ NextPost
    \/ Finish

SpecFeeds == InitFeeds /\ [][NextFeeds]_vars

----------------------------------------------------------------------------
(* smart_truncate alone, over texts around the budget with sentence ends at
   the places the function tells apart *)

BodyLengths ==
    { MAX_CONTENT_LENGTH - TRUNCATE_WINDOW, MAX_CONTENT_LENGTH,
      MAX_CONTENT_LENGTH + 1, MAX_CONTENT_LENGTH + TRUNCATE_WINDOW }

EndPlaces ==
    { TRUNCATE_WINDOW,
      MAX_CONTENT_LENGTH - TRUNCATE_WINDOW - 1, MAX_CONTENT_LENGTH - TRUNCATE_WINDOW,
      MAX_CONTENT_LENGTH - TRUNCATE_WINDOW + 1,
      MAX_CONTENT_LENGTH - 1, MAX_CONTENT_LENGTH, MAX_CONTENT_LENGTH + 1,
      MAX_CONTENT_LENGTH + TRUNCATE_WINDOW - 1 }

\* the texts: every length with every choice of places inside the text
Bodies ==
    { b \in { Str(n, ends) : n \in BodyLengths, ends \in SUBSET EndPlaces } :
        \A x \in b.ends : x < b.len }

InitTruncate ==
    /\ pc = "truncate"
    /\ now = At(10, 12, 0)
    /\ posted_hashes = {}
    /\ failed_sources = {}
    /\ source_priority = << >>
    /\ deleted_posts_tracker = << >>
    /\ hash_file = << >>
    /\ stats_file = NoStats
    /\ feed_idx = Len(AllFeeds) + 1
    /\ all_news = << SampleItem >>
    /\ seen_urls = { SampleItem.url }
    /\ filtered_news = << SampleItem >>
    /\ final_news = << SampleItem >>
    /\ schedule = << now >>
    /\ idx = 1
    /\ post = SampleItem
    /\ use_text = SampleItem.content
    /\ attempt = 0
    /\ calls = << >>
    /\ sleeps = << >>
    /\ outcome = "none"
    /\ delivered = << >>
    /\ recorded = {}
    /\ before = Snapshot({}, << >>, << >>, 0)
    /\ file_start = 0
    /\ cycle = 1
    /\ fetch_attempt = 0
    /\ body \in Bodies
    /\ truncated_content = NoString
    /\ env = [Env(0, {}, Links, TRUE, {0}, {MIN_POST_PAUSE}, {NoText}, 1)
                EXCEPT !.started = now]

SpecTruncate == InitTruncate /\ [][Truncate]_vars

----------------------------------------------------------------------------
(* Two cycles a day apart, the feeds answering, in which the delivery of an
   item may fail on every attempt *)

InitPenalty ==
    Fresh(At(10, 8, 0), << >>, NoStats,
          Env(MaxSendFaults, {}, {Url("finam.ru/1", FALSE), Url("cbr.ru/1", FALSE)},
              TRUE, {0}, {MIN_POST_PAUSE}, {NoText}, MaxCycles))

NextPenalty ==
    \/ Start
    \/ FetchOk
    \/ Select
    \/ GenerateSchedule
    \/ StartPost
    \/ Publish
    \/ NextPost
    \/ Finish
    \/ Restart

SpecPenalty == InitPenalty /\ [][NextPenalty]_vars

----------------------------------------------------------------------------
(* One cycle with three items to publish, in which delivery calls may fail,
   each wait ending and each call returning *)

InitCycle ==
    Fresh(At(10, 8, 0), << >>, NoStats,
          Env(MaxSendFaults, {},
              {Url("finam.ru/1", FALSE), Url("cbr.ru/1", FALSE),
               Url("kommersant.ru/1", FALSE)},
              TRUE, {0}, {MIN_POST_PAUSE}, {NoText, Text("stub", 1, 10)}, 1))

NextCycle ==
    \/ Start
    \/ FetchOk
    \/ Filter
    \/ Prioritize
    \/ Avoid
    \/ GenerateSchedule
    \/ StartPost
    \/ Publish
    \/ NextPost
    \/ Finish

SpecCycle == InitCycle /\ [][NextCycle]_vars

\* the steps of run() and publish_post that end with an await coming back, or
\* with a file access, a draw or a loop test
Returns ==
    \/ Start
    \/ FetchOk
    \/ Filter
    \/ GenerateSchedule
    \/ StartPost
    \/ Publish
    \/ NextPost
    \/ Finish

\* prioritize_sources returns
PrioritizeReturns == pc = "prioritize" /\ pc' = "avoid"

\* avoid_consecutive_sources returns
AvoidReturns == pc = "avoid" /\ pc' = "schedule"

\* every wait ends and every call returns: the process takes its next step
\* whenever it has one
LiveCycle ==
    /\ SpecCycle
    /\ WF_vars(Returns)
    /\ WF_pc(PrioritizeReturns)
    /\ WF_pc(AvoidReturns)

----------------------------------------------------------------------------
(* Properties *)

FingerprintOf(item) == Fingerprint(item.url, item.title)

\* the fingerprint was on one of the last HASH_LINES_KEPT lines of
\* posted_hashes.txt when load_hashes of this cycle read the file
Protected(fp) ==
    /\ file_start >= 0
    /\ \E k \in 1..file_start :
         /\ k > file_start - HASH_LINES_KEPT
         /\ hash_file[k] = fp

\* the fingerprint was recorded by save_hash in an earlier cycle
RecordedEarlier(fp) == \E r \in recorded : r.fp = fp /\ r.cycle < cycle

\* C1 as stated: once save_hash has recorded the fingerprint of a (url, title)
\* pair, no candidate with that pair passes the filter of run() or is sent
\* again, in the same cycle or in any later one, however many other
\* fingerprints were recorded in between.
C1_NeverAgain ==
    /\ \A i \in 1..Len(filtered_news) : ~ RecordedEarlier(FingerprintOf(filtered_news[i]))
    /\ \A i, j \in 1..Len(delivered) :
         i # j => FingerprintOf(delivered[i]) # FingerprintOf(delivered[j])

\* C1 amended: a (url, title) pair is sent at most once in a cycle, and in a
\* later cycle no candidate passes the filter or is sent whose fingerprint is
\* on one of the last HASH_LINES_KEPT lines of posted_hashes.txt as
\* load_hashes read it at the start of that cycle.
C1_NeverAgainWhileKept ==
    /\ \A i \in 1..Len(filtered_news) : ~ Protected(FingerprintOf(filtered_news[i]))
    /\ \A i \in 1..Len(delivered) :
         delivered[i].cycle = cycle => ~ Protected(FingerprintOf(delivered[i]))
    /\ \A i, j \in 1..Len(delivered) :
         i # j /\ delivered[i].cycle = delivered[j].cycle
            => FingerprintOf(delivered[i]) # FingerprintOf(delivered[j])

\* a later cycle whose feeds serve an article sent in the first cycle, its
\* fingerprint still among the lines read, after the filter has run
C1_Witness ==
    /\ cycle = 2
    /\ pc = "prioritize"
    /\ \E i \in 1..Len(all_news) :
         /\ Protected(FingerprintOf(all_news[i]))
         /\ \E j \in 1..Len(delivered) :
              /\ delivered[j].cycle = 1
              /\ FingerprintOf(delivered[j]) = FingerprintOf(all_news[i])

\* the eligible candidates not among the first n selected items
Remaining(n) == Range(filtered_news) \ Range(SubSeq(final_news, 1, n))

\* C2: the selection stage returns at most MAX_POSTS_PER_DAY items and never
\* two consecutive items of equal domain unless every remaining candidate
\* shares that domain.
C2_NoConsecutiveDomain ==
    pc = "schedule" =>
       /\ Len(final_news) <= MAX_POSTS_PER_DAY
       /\ \A i \in 1..(Len(final_news) - 1) :
            Domain(final_news[i].source) = Domain(final_news[i + 1].source)
               => \A c \in Remaining(i) :
                     Domain(c.source) = Domain(final_news[i].source)

EligibleSources == { filtered_news[i].source : i \in 1..Len(filtered_news) }

\* C3 as stated: with n eligible candidates the selection returns
\* min(MAX_POSTS_PER_DAY, n) items.
C3_FillsSlots ==
    pc = "schedule" => Len(final_news) = Min(MAX_POSTS_PER_DAY, Len(filtered_news))

\* C3 amended: the selection returns min(MAX_POSTS_PER_DAY, s) items, s the
\* number of distinct sources among the eligible candidates: at most one item
\* of each source, and that item is the first eligible one of its source.
C3_OnePerSource ==
    pc = "schedule" =>
       /\ Len(final_news) = Min(MAX_POSTS_PER_DAY, Cardinality(EligibleSources))
       /\ \A i, j \in 1..Len(final_news) :
            i # j => final_news[i].source # final_news[j].source
       /\ \A i \in 1..Len(final_news) :
            \E k \in 1..Len(filtered_news) :
               /\ filtered_news[k] = final_news[i]
               /\ \A m \in 1..(k - 1) : filtered_news[m].source # final_news[i].source

\* MAX_POSTS_PER_DAY eligible candidates of a single source, one of them selected
C3_Witness ==
    /\ pc = "schedule"
    /\ Len(filtered_news) = MAX_POSTS_PER_DAY
    /\ Cardinality(EligibleSources) = 1
    /\ Len(final_news) = 1

\* the same article: equal titles, links that differ at most by the tracking
\* parameter
SameStory(a, b) == a.title = b.title /\ a.url.base = b.url.base

\* C4: two candidates whose URLs differ only by a tracking parameter and whose
\* titles are identical collapse to a single selected item, whether they come
\* from one feed or from two.
C4_TrackingCollapses ==
    pc = "schedule" =>
       \A i, j \in 1..Len(final_news) :
          i # j => ~ SameStory(final_news[i], final_news[j])

\* C5: every rate-limited answer with retry_after = d is followed by exactly
\* one wait of d and another delivery attempt for the same item; it never
\* ends the item as skipped or failed.
C5_RateLimitRetried ==
    pc = "returned" =>
       \A i \in 1..Len(calls) :
          calls[i].kind = "rate_limited"
             => /\ i < Len(calls)
                /\ sleeps[i] = calls[i].retry_after

\* the failed attempts of the kind that uses up the retry budget
OtherFailures == { i \in 1..Len(calls) : calls[i].kind \in {"timeout", "error"} }

\* C6: rate-limited answers are not counted against the retry budget: the item
\* ends failed only after SEND_MAX_RETRIES failures of another kind.
C6_RateLimitNotCounted ==
    (pc = "returned" /\ outcome = "failed")
       => Cardinality(OtherFailures) >= SEND_MAX_RETRIES

\* C7: an item whose retry budget was used up by timeouts and other delivery
\* errors ends failed with the priority of its source decremented and the
\* time of the failure recorded for the source.
C7_ExhaustedPenalised ==
    (pc = "returned" /\ Cardinality(OtherFailures) = SEND_MAX_RETRIES)
       => /\ outcome = "failed"
          /\ Get(source_priority, post.source, 0) < Get(before.priority, post.source, 0)
          /\ post.source \in DOMAIN deleted_posts_tracker
          /\ deleted_posts_tracker[post.source] = now

\* a delivery call of publish_post returned success
Succeeded == \E i \in 1..Len(calls) : calls[i].kind = "ok"

\* C8: the fingerprint of the item is added to posted_hashes and the priority
\* of its source rises by 1 exactly when the delivery call returns success; an
\* item that ends skipped or failed has no fingerprint recorded.
C8_RecordedIffDelivered ==
    /\ Succeeded
         => /\ outcome = "delivered"
            /\ posted_hashes = before.hashes \cup {FingerprintOf(post)}
            /\ Get(source_priority, post.source, 0)
                  = Get(before.priority, post.source, 0) + 1
    /\ ~ Succeeded
         => /\ outcome # "delivered"
            /\ posted_hashes = before.hashes
            /\ Len(hash_file) = before.lines
            /\ Get(source_priority, post.source, 0)
                  <= Get(before.priority, post.source, 0)

\* a delivery that succeeded on the attempt after a failed one, for a source
\* with a score from earlier cycles
C8_Witness ==
    /\ pc = "returned"
    /\ outcome = "delivered"
    /\ Len(calls) = 2
    /\ post.source \in DOMAIN before.priority
    /\ FingerprintOf(post) \notin before.hashes

\* one of the three reasons for which publish_post skips the item holds
SkipReason ==
    \/ FingerprintOf(post) \in before.hashes
    \/ ~ is_finance_related(post.title, post.content)
    \/ (pc \notin {"validate", "fetch_text"} /\ CleanLen(use_text) < MIN_CONTENT_LENGTH)

\* C9: an item that publish_post skips (already in the store, not relevant,
\* or cleaned text shorter than MIN_CONTENT_LENGTH) causes no delivery call
\* and no retry, and leaves posted_hashes, source_priority and
\* deleted_posts_tracker as they were.
C9_SkipLeavesNoTrace ==
    (SkipReason \/ outcome = "skipped")
       => /\ calls = << >>
          /\ sleeps = << >>
          /\ outcome \in {"none", "skipped"}
          /\ (pc = "returned" => outcome = "skipped")
          /\ posted_hashes = before.hashes
          /\ source_priority = before.priority
          /\ deleted_posts_tracker = before.deleted

\* a new, relevant item skipped because the text of its page is too short
\* after cleaning, for a source with a score and a recorded failure
C9_Witness ==
    /\ pc = "returned"
    /\ outcome = "skipped"
    /\ FingerprintOf(post) \notin posted_hashes
    /\ is_finance_related(post.title, post.content)
    /\ use_text # NoText
    /\ CleanLen(use_text) < MIN_CONTENT_LENGTH
    /\ post.source \in DOMAIN deleted_posts_tracker

\* the day the schedule is for: the next one when the window is over
ScheduleDay == IF HourOf(now) >= END_HOUR THEN Midnight(now) + DAY ELSE Midnight(now)

Terminal == { "delivered", "skipped", "failed" }

\* the positions of final_news that hold the item of a delivery
PositionsOf(d) ==
    { k \in 1..Len(final_news) :
        /\ final_news[k].url = d.url
        /\ final_news[k].title = d.title
        /\ final_news[k].source = d.source }

\* C11: publishing is strictly sequential: publish_post is entered for the
\* item at the current position of final_news, and for every item but the first
\* only after the item before it has ended delivered, skipped or failed; the
\* channel receives the items of a cycle in the order of final_news.
C11_Sequential ==
    /\ [][ (pc = "loop" /\ pc' = "validate")
              => /\ post' = final_news[idx]
                 /\ calls' = << >>
                 /\ (idx > 1 => outcome \in Terminal) ]_vars
    /\ [][ idx' # idx => (idx' = 1 \/ (idx' = idx + 1 /\ outcome \in Terminal)) ]_vars
    /\ [](\A i, j \in 1..Len(delivered) :
             (i < j /\ delivered[i].cycle = cycle /\ delivered[j].cycle = cycle)
                => /\ delivered[i].at <= delivered[j].at
                   /\ \E a \in PositionsOf(delivered[i]), b \in PositionsOf(delivered[j]) :
                         a < b)

\* the second item of a cycle is being sent after the first was delivered
C11_Witness ==
    /\ pc = "send"
    /\ idx = 2
    /\ Len(delivered) >= 1
    /\ delivered[Len(delivered)].cycle = cycle
    /\ PositionsOf(delivered[Len(delivered)]) = {1}

\* the sources of the items delivered so far
DeliveredSources == { delivered[i].source : i \in 1..Len(delivered) }

\* C12: no source is starved: a source that offers an eligible item in every
\* cycle, all deliveries succeeding, is selected for delivery at some time,
\* whatever the competing sources and their scores.  Stated for the cycles of
\* one behaviour: when the last of them is over, every source that offered an
\* eligible item in each cycle has had an item delivered.
C12_NoStarvation ==
    (pc = "exit" /\ cycle = MaxRotations) => Regulars \subseteq DeliveredSources

\* the domains whose items were delivered before
History == { Domain(s) : s \in DeliveredSources }

Deliveries(source) ==
    Cardinality({ i \in 1..Len(delivered) : delivered[i].source = source })

\* nothing but the deliveries made tells the two sources apart: no failure is
\* recorded for either, and their scores are equal but for the rewards
EquallyRankedOtherwise(a, b) ==
    /\ a \notin DOMAIN deleted_posts_tracker
    /\ b \notin DOMAIN deleted_posts_tracker
    /\ Get(source_priority, a, 0) - Deliveries(a)
          = Get(source_priority, b, 0) - Deliveries(b)

\* C18: with the history of delivered domains containing a.com and two
\* otherwise equally ranked candidates of a.com and b.com, the selection
\* places the candidate of b.com first.
C18_AbsentDomainFirst ==
    pc = "schedule" =>
       \A i, j \in 1..Len(final_news) :
          (/\ i < j
           /\ Domain(final_news[i].source) \in History
           /\ Domain(final_news[j].source) \notin History)
             => ~ EquallyRankedOtherwise(final_news[i].source, final_news[j].source)

\* the number of finance keywords matched in the title and content of an item
Keywords(item) == item.title.kw + item.content.kw

\* C19 as stated: a candidate below the threshold, such as one with a single
\* matched keyword, is excluded from the filtered set of run() and is never
\* sent by publish_post.
C19_SingleKeywordExcluded ==
    /\ \A i \in 1..Len(filtered_news) : Keywords(filtered_news[i]) # 1
    /\ pc = "send" => Keywords(post) # 1

\* C19 amended: a candidate with no matched keyword in title and content is
\* excluded from the filtered set of run() and is never sent by publish_post;
\* a single matched keyword is enough to pass.
C19_NoKeywordExcluded ==
    /\ \A i \in 1..Len(all_news) : Keywords(all_news[i]) >= 1
    /\ \A i \in 1..Len(filtered_news) : Keywords(filtered_news[i]) >= 1
    /\ (pc = "send" \/ outcome = "delivered") => Keywords(post) >= 1

\* every feed was fetched, the off-topic entry of the day among the entries
\* served, and the filtered set holds single-keyword items only
C19_Witness ==
    /\ pc = "prioritize"
    /\ Keywords(OffTopicEntry(BFM, cycle)) = 0
    /\ OffTopicEntry(BFM, cycle).url \notin seen_urls
    /\ filtered_news # << >>
    /\ \A i \in 1..Len(filtered_news) :
         /\ filtered_news[i].source # BFM
         /\ Keywords(filtered_news[i]) = 1

\* C13: at publish time the relevance gate is evaluated after the full text
\* of the article has been fetched and on that text: an item is sent only if
\* the text used for the message passed the relevance check.
C13_GateOnUsedText ==
    \A i \in 1..Len(delivered) :
       is_finance_related(delivered[i].title, delivered[i].text)

\* the candidates collected from the primary feeds
PrimaryCandidates ==
    Cardinality({ i \in 1..Len(all_news) : all_news[i].source \in Range(RSS_SOURCES) })

\* C14: backup feeds are fetched in a cycle only if the primary feeds gave
\* fewer than MAX_POSTS_PER_DAY candidates; when they gave that many or more,
\* no backup feed is fetched.
C14_BackupsOnlyWhenShort ==
    /\ (pc = "fetch" /\ feed_idx > Len(RSS_SOURCES))
          => PrimaryCandidates < MAX_POSTS_PER_DAY
    /\ (\E i \in 1..Len(all_news) : all_news[i].source \in Range(BACKUP_SOURCES))
          => PrimaryCandidates < MAX_POSTS_PER_DAY

\* the feeds are done, the primary ones gave MAX_POSTS_PER_DAY candidates or
\* more, and nothing of a backup feed was collected
C14_Witness ==
    /\ pc = "filter"
    /\ PrimaryCandidates >= MAX_POSTS_PER_DAY
    /\ \A i \in 1..Len(all_news) : all_news[i].source \notin Range(BACKUP_SOURCES)

\* The program keeps no list of the domains it selected.  What it keeps for a
\* source are source_priority and deleted_posts_tracker, in memory and in
\* source_stats.json: the domains named there.
TracedDomains ==
    { Domain(s) : s \in DOMAIN source_priority \cup DOMAIN deleted_posts_tracker
                         \cup DOMAIN stats_file.priority \cup DOMAIN stats_file.deleted }

\* C17: every item that was selected and scheduled leaves a trace of its
\* domain in the history the program keeps, whether its delivery succeeds, is
\* skipped or fails.
C17_ScheduledLeavesTrace ==
    pc = "returned" => Domain(post.source) \in TracedDomains

\* the items collected from a feed
CollectedFrom(source) == { i \in 1..Len(all_news) : all_news[i].source = source }

\* fetch_feed has been called for the feed and has returned
Fetched(source) == \E k \in 1..(feed_idx - 1) : k <= Len(AllFeeds) /\ AllFeeds[k] = source

\* the items fetch_feed returns for the feed when an attempt succeeds
Offered(source) ==
    FeedItems(source, SelectSeq(FeedEntries(source), LAMBDA e : e.url \in env.links))

\* the feed has items to give, and fetch_feed returned none of them
GaveUp(source) ==
    /\ Fetched(source)
    /\ Offered(source) # << >>
    /\ CollectedFrom(source) = {}

KOMMERSANT_NEWS == RSS_SOURCES[5]

\* C15: the failure of a feed on every attempt does not abort the cycle:
\* fetch_feed gives no candidates for it, run() goes on with the next feed,
\* and the candidates of the feeds that answer are collected for selection.
C15_FeedFailureNotFatal ==
    /\ [][ (pc = "fetch" /\ fetch_attempt = FETCH_MAX_RETRIES - 1
               /\ env'.faults < env.faults)
              => /\ all_news' = all_news
                 /\ fetch_attempt' = 0
                 /\ IF feed_idx < Len(RSS_SOURCES)
                    THEN feed_idx' = feed_idx + 1 /\ pc' = "fetch"
                    ELSE feed_idx' > feed_idx /\ pc' \in {"fetch", "filter"} ]_vars
    /\ [](pc \notin {"start", "fetch"}
             => \A source \in Range(RSS_SOURCES) \ env.flaky :
                   Offered(source) # << >> => CollectedFrom(source) # {})

\* a feed failed on all its attempts, and the item of a feed fetched after it
\* has been delivered in the same cycle
C15_Witness ==
    /\ GaveUp(CBR)
    /\ pc = "returned"
    /\ outcome = "delivered"
    /\ post.source = KOMMERSANT_NEWS

\* C16: a feed is added to failed_sources only after its three attempts are
\* used up; every feed whose attempts all failed, by timeout too, is added;
\* a feed that succeeds on a retry is not.
C16_MarkedWhenExhausted ==
    /\ (pc = "fetch" /\ fetch_attempt < FETCH_MAX_RETRIES)
          => AllFeeds[feed_idx] \notin failed_sources
    /\ \A source \in failed_sources : CollectedFrom(source) = {}
    /\ \A source \in FeedSet : GaveUp(source) => source \in failed_sources

\* the fingerprint of a delivery of this cycle did not reach posted_hashes.txt
HashNotWritten(d) == d.cycle = cycle /\ FingerprintOf(d) \notin Range(hash_file)

\* C20: a failure to write posted_hashes.txt or source_stats.json does not
\* abort the cycle: the update in memory is kept (the fingerprint is in
\* posted_hashes, the priority is adjusted), publish_post returns its outcome,
\* and the remaining scheduled items are processed.
C20_WriteFailureNotFatal ==
    /\ \A i \in 1..Len(delivered) :
         HashNotWritten(delivered[i])
            => FingerprintOf(delivered[i]) \in posted_hashes
    /\ (outcome = "delivered" /\ pc = "returned")
          => /\ FingerprintOf(post) \in posted_hashes
             /\ Get(source_priority, post.source, 0)
                   = Get(before.priority, post.source, 0) + 1
    /\ (pc = "exit" /\ final_news # << >>) => idx = Pairs

\* the second item of the cycle has been delivered after the fingerprint of
\* the first could not be written
C20_Witness ==
    /\ pc = "returned"
    /\ idx = 2
    /\ outcome = "delivered"
    /\ Len(delivered) >= 2
    /\ HashNotWritten(delivered[Len(delivered) - 1])
    /\ ~ HashNotWritten(delivered[Len(delivered)])

\* C21: a failed or empty full-text fetch never aborts the item: publish_post
\* falls back to the content the item was ingested with, and an item that
\* passed the filter of run() is then not skipped for too short a text but
\* goes on to the sending loop; only a text the article page did give can
\* end the item as too short.
C21_FallsBackToSummary ==
    /\ [](pc = "fetch_text" => CleanLen(post.content) >= MIN_CONTENT_LENGTH)
    /\ [][ (pc = "fetch_text" /\ use_text' \notin (env.full_texts \ {NoText}))
              => /\ use_text' = post.content
                 /\ pc' = "send"
                 /\ outcome' = "none" ]_vars
    /\ [][ (pc = "fetch_text" /\ pc' = "returned")
              => /\ use_text' \in env.full_texts \ {NoText}
                 /\ CleanLen(use_text') < MIN_CONTENT_LENGTH ]_vars

\* an item selected by run() was delivered with the content it was ingested
\* with, the fetch of its page having given nothing
C21_Witness ==
    /\ pc = "returned"
    /\ outcome = "delivered"
    /\ post \in Range(filtered_news)
    /\ use_text = post.content
    /\ delivered[Len(delivered)].text = post.content

\* the sentence ends of the text within the last TRUNCATE_WINDOW characters
\* of the budget: the indices max_length - 100 .. max_length - 1
EndsInWindow(text, max_length) ==
    { e \in text.ends : e >= max_length - TRUNCATE_WINDOW /\ e < max_length }

\* C22: for a text longer than the budget, smart_truncate cuts at the last
\* sentence end found within the final TRUNCATE_WINDOW characters of the
\* budget, returning a text that ends with that character and is no longer
\* than the budget; only when no sentence end lies in that range does it
\* cut at the budget and append an ellipsis.
C22_CutsAtSentenceEnd ==
    (pc = "truncated" /\ body.len > MAX_CONTENT_LENGTH)
       => LET window == EndsInWindow(body, MAX_CONTENT_LENGTH)
              last == CHOOSE e \in window : \A x \in window : x <= e
          IN IF window # {}
             THEN /\ truncated_content = Slice(body, last + 1)
                  /\ truncated_content.len <= MAX_CONTENT_LENGTH
                  /\ truncated_content.len - 1 \in truncated_content.ends
                  /\ ~ truncated_content.ellipsis
             ELSE truncated_content = WithEllipsis(Slice(body, MAX_CONTENT_LENGTH))

\* the sources of the items selected
SelectedSources == { final_news[i].source : i \in 1..Len(final_news) }

\* the source has a negative score and a recorded failure
Penalised(source) ==
    /\ Get(source_priority, source, 0) < 0
    /\ source \in DOMAIN deleted_posts_tracker

\* C23: the health of a source ranks it and does not exclude it: whenever at
\* most MAX_POSTS_PER_DAY distinct sources have an eligible item, each of them
\* has an item in the selection, however negative its score and however
\* recent its last failure.
C23_RankingNotGate ==
    (pc \in {"avoid", "schedule"}
        /\ Cardinality(EligibleSources) <= MAX_POSTS_PER_DAY)
       => /\ SelectedSources = EligibleSources
          /\ \A source \in EligibleSources :
                \E i \in 1..Len(final_news) :
                   /\ final_news[i].source = source
                   /\ final_news[i] \in Range(filtered_news)

\* MAX_POSTS_PER_DAY sources with eligible items, among them one penalised ten
\* times and the last time at this moment, and its item is selected
C23_Witness ==
    /\ pc = "schedule"
    /\ Cardinality(EligibleSources) = MAX_POSTS_PER_DAY
    /\ \E source \in EligibleSources :
         /\ Penalised(source)
         /\ source_priority[source] <= 0 - 10 * DELETE_PENALTY
         /\ deleted_posts_tracker[source] >= now - 60
         /\ source \in SelectedSources

\* the delivery calls of publish_post that returned success
OkCalls == { i \in 1..Len(calls) : calls[i].kind = "ok" }

\* C24: for every item publish_post calls the delivery collaborator at most
\* SEND_MAX_RETRIES times, makes no attempt after the first successful send
\* (at most one successful send for the item), and waits 2 ** attempt seconds
\* after a timeout or another error before the next attempt.
C24_BoundedAttempts ==
    /\ Len(calls) <= SEND_MAX_RETRIES
    /\ Cardinality(OkCalls) <= 1
    /\ \A i \in OkCalls : i = Len(calls) /\ pc = "returned" /\ outcome = "delivered"
    /\ Cardinality({ k \in 1..Len(delivered) :
                       delivered[k].cycle = cycle /\ FingerprintOf(delivered[k]) = FingerprintOf(post) })
          = Cardinality(OkCalls)
    /\ \A i \in 1..Len(calls) :
          (i < Len(calls) \/ pc = "send")
             => /\ calls[i].kind # "ok"
                /\ Len(sleeps) >= i
                /\ calls[i].kind \in {"timeout", "error"} => sleeps[i] = 2 ^ (i - 1)

\* the item was delivered by the third call, after a timeout and an error
\* followed by waits of 1 and 2 seconds
C24_Witness ==
    /\ pc = "returned"
    /\ outcome = "delivered"
    /\ Len(calls) = SEND_MAX_RETRIES
    /\ calls[1].kind = "timeout"
    /\ calls[2].kind = "error"
    /\ sleeps = << 1, 2 >>

\* publish_post has been called for the pair at idx in this cycle
InPublishPost == pc \in {"validate", "fetch_text", "send", "returned"}

\* C25: no item is handed to publish_post before the time it is paired with:
\* the item at position i of final_news is processed only when the current
\* time is at or after schedule[i], the pairs being made by position with the
\* times in ascending order.
C25_NotBeforeSchedule ==
    /\ \A i \in 1..(Len(schedule) - 1) : schedule[i] <= schedule[i + 1]
    /\ InPublishPost
          => /\ idx <= Pairs
             /\ post = final_news[idx]
             /\ now >= schedule[idx]
    /\ \A k \in 1..Len(delivered) :
          delivered[k].cycle = cycle
             => \E a \in PositionsOf(delivered[k]) :
                   a <= Len(schedule) /\ delivered[k].at >= schedule[a]

\* publish_post is entered for the second item at the very time of its slot,
\* the first item having been delivered at the time of the first slot
C25_Witness ==
    /\ pc = "validate"
    /\ idx = 2
    /\ now = schedule[2]
    /\ schedule[1] < schedule[2]
    /\ Len(delivered) >= 1
    /\ delivered[Len(delivered)].cycle = cycle
    /\ delivered[Len(delivered)].at = schedule[1]

\* C26: every time returned by generate_post_schedule is at or after the
\* moment of the call, whether the call is made before the window, inside it
\* or after it, so that the deliveries of a cycle are spread over the window
\* and not made one right after the other.
C26_ScheduleNotInPast ==
    (pc = "loop" /\ idx = 1)
       => \A i \in 1..Len(schedule) : schedule[i] >= now

\* the sources penalised by track_deleted_post since publish_post was last
\* called, nothing else having happened to them: the failure is recorded at a
\* new time and the score is lower by DELETE_PENALTY
PenalisedSince ==
    { source \in DOMAIN deleted_posts_tracker \cap DOMAIN source_priority :
        /\ Get(before.deleted, source, -1) # deleted_posts_tracker[source]
        /\ source_priority[source] = Get(before.priority, source, 0) - DELETE_PENALTY }

\* the weight the source would have now had the failure not happened
WeightWithoutFailure(source) == Weight(before.priority, before.deleted, source, now)

\* C27: a terminal delivery failure never raises the selection weight of the
\* source: at every later time, nothing else having happened to the source,
\* get_source_weight of the penalised source is at most the weight it would
\* have had without the failure.
C27_FailureNeverRaisesWeight ==
    \A source \in PenalisedSince :
       get_source_weight(source) <= WeightWithoutFailure(source)

\* C28: in every cycle the selected items come from pairwise distinct feeds,
\* each of them is an item of the filtered candidates and none is repeated,
\* and avoid_consecutive_sources returns the items chosen by
\* prioritize_sources in the same order.
C28_SelectionDistinct ==
    /\ pc \in {"avoid", "schedule"}
          => /\ \A i, j \in 1..Len(final_news) :
                   i # j => /\ final_news[i].source # final_news[j].source
                            /\ final_news[i] # final_news[j]
             /\ \A i \in 1..Len(final_news) : final_news[i] \in Range(filtered_news)
    /\ pc = "schedule" => final_news = prioritize_sources(filtered_news)

\* MAX_POSTS_PER_DAY items selected, the item of the first feed put last by
\* its weight, and the order is the one prioritize_sources gave
C28_Witness ==
    /\ pc = "schedule"
    /\ Len(final_news) = MAX_POSTS_PER_DAY
    /\ filtered_news[1].source = FINAM
    /\ final_news[MAX_POSTS_PER_DAY].source = FINAM
    /\ Len(filtered_news) > MAX_POSTS_PER_DAY

\* C29: every wait ending and every collaborator call returning, each
\* selected item reaches exactly one of the outcomes delivered, skipped and
\* failed, and the cycle ends after at most MAX_POSTS_PER_DAY items, whatever
\* the answers of the delivery collaborator, rate-limited on every attempt
\* included.
C29_CycleTerminates ==
    /\ <>(pc = "exit")
    /\ \A i \in 1..MAX_POSTS_PER_DAY :
          (InPublishPost /\ idx = i) ~> (pc = "returned" /\ idx = i /\ outcome \in Terminal)
    /\ [](pc = "exit" => (idx = Len(final_news) /\ outcome \in Terminal))
    /\ [](idx <= MAX_POSTS_PER_DAY /\ Len(final_news) <= MAX_POSTS_PER_DAY)
    /\ [][ (outcome \in Terminal)
              => ((outcome' = outcome /\ post' = post)
                     \/ (outcome' = "none" /\ pc = "loop" /\ post' # post)) ]_vars
    /\ [][ (outcome = "none" /\ outcome' # "none")
              => outcome' \in Terminal /\ pc' = "returned" ]_vars
    /\ [][ idx' # idx => (idx' = idx + 1 /\ outcome \in Terminal) ]_vars

\* the cycle is over after MAX_POSTS_PER_DAY items, the last of which was
\* answered as rate-limited on every attempt
C29_Witness ==
    /\ pc = "exit"
    /\ idx = MAX_POSTS_PER_DAY
    /\ Len(calls) = SEND_MAX_RETRIES
    /\ \A i \in 1..Len(calls) : calls[i].kind = "rate_limited"
    /\ outcome = "failed"
    /\ Len(delivered) < MAX_POSTS_PER_DAY

====
